---- MODULE Spec2Model ----
(***************************************************************************)
(* Model of analyze_checkpoints.py: the depth-bounded recursive walk        *)
(* analyze_nested_dict over a nested mapping, with get_tensor_info.         *)
(*                                                                          *)
(* Python dicts are objects reached by reference, so the input is a heap    *)
(* of dict objects: the same dict may be stored under several keys and a    *)
(* dict may contain itself.  Strings are sequences of one-character         *)
(* strings, so that the f-string join and the [:100] slice are computed.    *)
(* The recursion is run on an explicit call stack, one action per step of   *)
(* the function body.                                                       *)
(***************************************************************************)
EXTENDS Integers, Sequences, FiniteSets, Bags, TLC

VARIABLES heap, prefix0, max_depth, stack, out

vars == <<heap, prefix0, max_depth, stack, out>>

(* ---------------------------- bounds ---------------------------------- *)

\* max_depth is drawn from 0..MaxDepthBound
MaxDepthBound == 3
\* the driver calls the analyzer NumCalls times on the same input
NumCalls == 2

(* --------------------------- constants -------------------------------- *)

\* str(value)[:100]
PreviewLen == 100

DOT == "."

DictIds == {1, 2}
Root == 1

(* ----------------------------- values --------------------------------- *)

DictRef(i) == [kind |-> "dict", ref |-> i]

Tensor(shape, dtype, device) ==
    [kind |-> "tensor", shape |-> shape, dtype |-> dtype, device |-> device]

Other(tname, sizeof, repr, isCallable) ==
    [kind |-> "other", tname |-> tname, sizeof |-> sizeof, repr |-> repr,
     callable |-> isCallable]

Chars(n, c) == [i \in 1..n |-> c]

\* isinstance(value, dict)
IsDict(v) == v.kind = "dict"

\* torch.is_tensor(value)
is_tensor(v) == v.kind = "tensor"

\* tensor.numel(): the product of the dimension sizes (1 for a 0-d tensor)
RECURSIVE numel(_)
numel(shape) ==
    IF shape = <<>> THEN 1 ELSE Head(shape) * numel(Tail(shape))

\* tensor.element_size()
element_size(dtype) ==
    CASE dtype = "float32" -> 4
      [] dtype = "float16" -> 2
      [] dtype = "int64" -> 8
      [] dtype = "bool" -> 1

\* str(tensor.dtype)
StrDtype(dtype) ==
    CASE dtype = "float32" -> "torch.float32"
      [] dtype = "float16" -> "torch.float16"
      [] dtype = "int64" -> "torch.int64"
      [] dtype = "bool" -> "torch.bool"

\* sys.getsizeof(value): the shallow size the runtime reports for the value
getsizeof(v) == v.sizeof

\* type(value).__name__
TypeName(v) == v.tname

\* s[:n]
Take(s, n) == IF Len(s) <= n THEN s ELSE SubSeq(s, 1, n)

\* mutant: the element count is taken for the byte size
get_tensor_info_numel_only(t) ==
    [shape |-> t.shape,
     dtype |-> StrDtype(t.dtype),
     size_bytes |-> numel(t.shape),
     device |-> t.device]

get_tensor_info(t) ==
    [shape |-> t.shape,
     dtype |-> StrDtype(t.dtype),
     size_bytes |-> numel(t.shape) * element_size(t.dtype),
     device |-> t.device]

\* mutant: the separator is written even when the prefix is empty
full_key_always_dot(prefix, key) == prefix \o <<DOT>> \o key

\* f"{prefix}.{key}" if prefix else key
full_key(prefix, key) ==
    IF prefix # <<>> THEN prefix \o <<DOT>> \o key ELSE key

\* mutant: the guard already fires at current_depth = max_depth
DepthExceeded_early(current_depth, maxd) == current_depth >= maxd

\* mutant: the guard fires one level late
DepthExceeded_late(current_depth, maxd) == current_depth > maxd + 1

\* current_depth > max_depth
DepthExceeded(current_depth, maxd) == current_depth > maxd

\* mutant: the slice is forgotten
value_preview_unsliced(v) ==
    IF ~v.callable THEN v.repr
    ELSE <<"c", "a", "l", "l", "a", "b", "l", "e">>

\* str(value)[:100] if not callable(value) else 'callable'
value_preview(v) ==
    IF ~v.callable THEN Take(v.repr, PreviewLen)
    ELSE <<"c", "a", "l", "l", "a", "b", "l", "e">>

TensorDescriptor(fk, v) ==
    LET tensor_info == get_tensor_info(v) IN
    [key |-> fk,
     type |-> "tensor",
     shape |-> tensor_info.shape,
     dtype |-> tensor_info.dtype,
     size_bytes |-> tensor_info.size_bytes,
     device |-> tensor_info.device]

OtherDescriptor(fk, v) ==
    [key |-> fk,
     type |-> TypeName(v),
     size_bytes |-> getsizeof(v),
     value_preview |-> value_preview(v)]

\* mutant: the list outlives the call, as a mutable default argument would
StaleResults == IF out = <<>> THEN <<>> ELSE out[Len(out)]

\* results = []
FreshResults == <<>>

\* mutant: the returned descriptors are put in front
Extend_front(results, returned) == returned \o results

\* results.extend(returned)
Extend(results, returned) == results \o returned

(* ----------------------------- inputs --------------------------------- *)

\* the key sets of the structural inputs: plain keys, an empty key, a key
\* that itself contains a dot
KeySets ==
    {{<<"a">>, <<"b">>},
     {<<>>, <<"a">>},
     {<<"a">>, <<"a", DOT, "b">>}}

Prefixes == {<<>>, <<"m">>}

StructLeaves ==
    {Tensor(<<2, 2>>, "float32", "cpu"),
     Other("int", 28, <<"5">>, FALSE)}

StructValues == {DictRef(i) : i \in DictIds} \cup StructLeaves

Entry(k, v) == [key |-> k, val |-> v]

\* the items of a dict, in iteration order: keys are pairwise distinct
DictContents(KS, VS) ==
    {s \in UNION {[1..m -> {Entry(k, v) : k \in KS, v \in VS}] :
                      m \in 0..Cardinality(KS)} :
        \A i, j \in 1..Len(s) : i # j => s[i].key # s[j].key}

Frame(data, prefix, depth) ==
    [data |-> data, prefix |-> prefix, current_depth |-> depth,
     results |-> FreshResults, pos |-> 0, pc |-> "start"]

Shapes == {<<>>, <<0>>, <<2, 2>>, <<2, 3, 4>>}
Dtypes == {"float32", "float16", "int64", "bool"}
Devices == {"cpu", "cuda:0"}

\* leaves of every kind: tensors of several shapes, element types and
\* devices; an int, None, strings of exactly 100 and of 101 characters, a
\* function, a callable object with a long representation
RichLeaves ==
    {Tensor(sh, dt, dev) : sh \in Shapes, dt \in Dtypes, dev \in Devices}
    \cup {Other("int", 28, <<"5">>, FALSE),
          Other("NoneType", 16, <<"N", "o", "n", "e">>, FALSE),
          Other("str", 149, Chars(PreviewLen, "x"), FALSE),
          Other("str", 150, Chars(PreviewLen + 1, "x"), FALSE),
          Other("function", 160, <<"<", "f", ">">>, TRUE),
          Other("Hook", 56, Chars(PreviewLen + 1, "h"), TRUE)}

\* structural inputs: every heap of dicts over a key set, sharing and cycles
\* included; a dict the root does not hold is no part of the input and is
\* left empty
StructHeaps ==
    {h \in UNION {[DictIds -> DictContents(KS, StructValues)] : KS \in KeySets} :
        \A i \in DictIds \ {Root} :
            h[i] # <<>> => \E j \in 1..Len(h[Root]) : h[Root][j].val = DictRef(i)}

\* {"a": {"b": leaf}, "c": leaf} with leaves of every kind
LeafHeaps ==
    {[i \in DictIds |->
        IF i = Root THEN <<Entry(<<"a">>, DictRef(2)), Entry(<<"c">>, l1)>>
        ELSE <<Entry(<<"b">>, l2)>>] : l1, l2 \in RichLeaves}

Init ==
    /\ heap \in StructHeaps \cup LeafHeaps
    /\ prefix0 \in Prefixes
    /\ max_depth \in 0..MaxDepthBound
    /\ stack = <<>>
    /\ out = <<>>

(* ----------------------------- actions -------------------------------- *)

Top == stack[Len(stack)]
Below == SubSeq(stack, 1, Len(stack) - 1)
SetTop(f) == [stack EXCEPT ![Len(stack)] = f]

\* the stack and the driver's outputs after the top frame returns `returned`
Deliver(returned) ==
    IF Len(stack) = 1
    THEN /\ stack' = <<>>
         /\ out' = Append(out, returned)
    ELSE /\ stack' = [Below EXCEPT ![Len(stack) - 1].results =
                                        Extend(@, returned)]
         /\ out' = out

\* the driver calls analyze_nested_dict(data, prefix, max_depth)
Call ==
    /\ stack = <<>>
    /\ Len(out) < NumCalls
    /\ stack' = <<Frame(Root, prefix0, 0)>>
    /\ UNCHANGED <<heap, prefix0, max_depth, out>>

\* if current_depth > max_depth: return results
DepthGuard ==
    /\ stack # <<>>
    /\ Top.pc = "start"
    /\ DepthExceeded(Top.current_depth, max_depth)
    /\ Deliver(Top.results)
    /\ UNCHANGED <<heap, prefix0, max_depth>>

\* otherwise the loop over data.items() begins
BeginLoop ==
    /\ stack # <<>>
    /\ Top.pc = "start"
    /\ ~DepthExceeded(Top.current_depth, max_depth)
    /\ stack' = SetTop([Top EXCEPT !.pc = "loop"])
    /\ UNCHANGED <<heap, prefix0, max_depth, out>>

HasNext == /\ stack # <<>>
           /\ Top.pc = "loop"
           /\ Top.pos < Len(heap[Top.data])

NextEntry == heap[Top.data][Top.pos + 1]

\* value is a dict: recurse with prefix = full_key, current_depth + 1
Recurse ==
    /\ HasNext
    /\ IsDict(NextEntry.val)
    /\ stack' = Append(SetTop([Top EXCEPT !.pos = @ + 1]),
                       Frame(NextEntry.val.ref,
                             full_key(Top.prefix, NextEntry.key),
                             Top.current_depth + 1))
    /\ UNCHANGED <<heap, prefix0, max_depth, out>>

\* value is a tensor: append the tensor descriptor
AppendTensor ==
    /\ HasNext
    /\ ~IsDict(NextEntry.val)
    /\ is_tensor(NextEntry.val)
    /\ stack' = SetTop([Top EXCEPT
            !.pos = @ + 1,
            !.results = Append(@, TensorDescriptor(
                            full_key(Top.prefix, NextEntry.key), NextEntry.val))])
    /\ UNCHANGED <<heap, prefix0, max_depth, out>>

\* mutant: the value is replaced in the input by its preview
AppendOther_in_place ==
    /\ HasNext
    /\ ~IsDict(NextEntry.val)
    /\ ~is_tensor(NextEntry.val)
    /\ stack' = SetTop([Top EXCEPT
            !.pos = @ + 1,
            !.results = Append(@, OtherDescriptor(
                            full_key(Top.prefix, NextEntry.key), NextEntry.val))])
    /\ heap' = [heap EXCEPT ![Top.data][Top.pos + 1].val =
                    Other("str", NextEntry.val.sizeof,
                          value_preview(NextEntry.val), FALSE)]
    /\ UNCHANGED <<prefix0, max_depth, out>>

\* any other value: append the generic descriptor
AppendOther ==
    /\ HasNext
    /\ ~IsDict(NextEntry.val)
    /\ ~is_tensor(NextEntry.val)
    /\ stack' = SetTop([Top EXCEPT
            !.pos = @ + 1,
            !.results = Append(@, OtherDescriptor(
                            full_key(Top.prefix, NextEntry.key), NextEntry.val))])
    /\ UNCHANGED <<heap, prefix0, max_depth, out>>

\* the loop is exhausted: return results
Return ==
    /\ stack # <<>>
    /\ Top.pc = "loop"
    /\ Top.pos = Len(heap[Top.data])
    /\ Deliver(Top.results)
    /\ UNCHANGED <<heap, prefix0, max_depth>>

Next ==
    \/ Call
    \/ DepthGuard
    \/ BeginLoop
    \/ Recurse
    \/ AppendTensor
    \/ AppendOther
    \/ Return

Spec == Init /\ [][Next]_vars

\* the interpreter runs the call to completion: a step that can be taken is
\* taken
FairSpec == Spec /\ WF_vars(Next)

Done == stack = <<>> /\ Len(out) = NumCalls

(* ------------------- vocabulary of the properties --------------------- *)

Range(s) == {s[i] : i \in DOMAIN s}

BagOfSeq(s) == [d \in Range(s) |-> Cardinality({i \in DOMAIN s : s[i] = d})]

BagOfMap(S, F(_)) ==
    [d \in {F(x) : x \in S} |-> Cardinality({x \in S : F(x) = d})]

\* the dotted path as the specification states it
JoinRule(p, k) == IF p = <<>> THEN k ELSE p \o <<".">> \o k

RECURSIVE PathKey(_, _)
PathKey(p, ks) ==
    IF ks = <<>> THEN p ELSE PathKey(JoinRule(p, Head(ks)), Tail(ks))

MaxLen == IF \A i \in DictIds : heap[i] = <<>> THEN 0
          ELSE CHOOSE n \in 1..10 :
                  /\ \E i \in DictIds : Len(heap[i]) = n
                  /\ \A i \in DictIds : Len(heap[i]) <= n

\* sequences of item positions, one per nesting level, of length 1..n
PosSeqs(n) == UNION {[1..m -> 1..MaxLen] : m \in 1..n}

NoValue == [kind |-> "none"]

\* the value found by following the positions ps from dict id, if any
RECURSIVE Walk(_, _)
Walk(id, ps) ==
    IF Head(ps) > Len(heap[id]) THEN NoValue
    ELSE LET v == heap[id][Head(ps)].val IN
         IF Len(ps) = 1 THEN v
         ELSE IF IsDict(v) THEN Walk(v.ref, Tail(ps)) ELSE NoValue

RECURSIVE WalkKeys(_, _)
WalkKeys(id, ps) ==
    IF Len(ps) = 1 THEN <<heap[id][Head(ps)].key>>
    ELSE <<heap[id][Head(ps)].key>>
            \o WalkKeys(heap[id][Head(ps)].val.ref, Tail(ps))

IsLeafPath(ps) == Walk(Root, ps).kind \in {"tensor", "other"}

\* the leaves lying in a dict at nesting depth <= d (the root is depth 0)
LeafPaths(d) == {ps \in PosSeqs(d + 1) : IsLeafPath(ps)}

\* the descriptor the specification prescribes for the leaf at ps
LeafDescriptor(ps) ==
    LET v == Walk(Root, ps)
        k == PathKey(prefix0, WalkKeys(Root, ps))
    IN  IF v.kind = "tensor"
        THEN [key |-> k, type |-> "tensor", shape |-> v.shape,
              dtype |-> StrDtype(v.dtype),
              size_bytes |-> numel(v.shape) * element_size(v.dtype),
              device |-> v.device]
        ELSE [key |-> k, type |-> v.tname, size_bytes |-> v.sizeof,
              value_preview |-> IF v.callable
                                THEN <<"c", "a", "l", "l", "a", "b", "l", "e">>
                                ELSE Take(v.repr, PreviewLen)]

Returned == stack = <<>> /\ out # <<>>

(* ----------------------------- claims --------------------------------- *)

\* C1: the descriptors returned by a call are, as a multiset, exactly one
\* descriptor per leaf lying in a dict at nesting depth <= max_depth: none
\* missing, none twice, none from a pruned subtree.
C1_OnePerLeaf ==
    Returned =>
        \A c \in 1..Len(out) :
            BagOfSeq(out[c]) = BagOfMap(LeafPaths(max_depth), LeafDescriptor)

\* a call returned descriptors although deeper leaves exist and were pruned
C1_Witness ==
    /\ Returned
    /\ Len(out[1]) >= 2
    /\ LeafPaths(max_depth + 1) # LeafPaths(max_depth)

C2_OverDepthInert ==
    \A i \in 1..Len(stack) :
        stack[i].current_depth > max_depth =>
            /\ stack[i].results = <<>>
            /\ stack[i].pos = 0
            /\ stack[i].pc = "start"

C2_OverDepthReturnsEmpty ==
    (/\ stack # <<>>
     /\ Top.current_depth > max_depth
     /\ Len(stack') < Len(stack))
        => IF Len(stack) = 1
           THEN out' = Append(out, <<>>)
           ELSE stack'[Len(stack')].results = stack[Len(stack) - 1].results

\* C2: a dict at nesting depth > max_depth contributes nothing: the call
\* made for it has processed no entry and holds no descriptor, and when it
\* returns, its caller's results (or the driver's output) gain nothing.
C2_PrunedSubtreeSilent ==
    []C2_OverDepthInert /\ [][C2_OverDepthReturnsEmpty]_vars

\* with max_depth = 3, the call for a dict at depth 4 that holds a leaf
C2_Witness ==
    /\ stack # <<>>
    /\ max_depth = 3
    /\ Top.current_depth = 4
    /\ \E e \in Range(heap[Top.data]) : ~IsDict(e.val)

HeapKeys == {heap[i][j].key : <<i, j>> \in
                {<<i, j>> \in DictIds \X (1..MaxLen) : j <= Len(heap[i])}}

KeySeqs(n) == UNION {[1..m -> HeapKeys] : m \in 1..n}

\* C3: every returned key is the prefix joined with at most max_depth + 1
\* keys: dictionary nesting contributes at most max_depth + 1 segments.
C3_SegmentsBounded ==
    Returned =>
        \A c \in 1..Len(out) : \A i \in 1..Len(out[c]) :
            \E ks \in KeySeqs(max_depth + 1) :
                out[c][i].key = PathKey(prefix0, ks)

\* a returned key with exactly max_depth + 1 segments, deeper leaves pruned
C3_Witness ==
    /\ Returned
    /\ max_depth >= 1
    /\ \E ps \in LeafPaths(max_depth) : Len(ps) = max_depth + 1
    /\ \E ps \in LeafPaths(max_depth + 1) : Len(ps) = max_depth + 2

\* C4: every tensor leaf within the depth bound has a descriptor of kind
\* 'tensor' whose byte size is element count x element width, whatever the
\* device.
C4_TensorSize ==
    Returned =>
        \A c \in 1..Len(out) : \A ps \in LeafPaths(max_depth) :
            LET v == Walk(Root, ps) IN
            v.kind = "tensor" =>
                \E i \in 1..Len(out[c]) :
                    /\ out[c][i].key = PathKey(prefix0, WalkKeys(Root, ps))
                    /\ out[c][i].type = "tensor"
                    /\ out[c][i].shape = v.shape
                    /\ out[c][i].size_bytes =
                            numel(v.shape) * element_size(v.dtype)

\* two tensors of one shape and element type on different devices, both of
\* 24 elements x 2 bytes
C4_Witness ==
    /\ Returned
    /\ \E i, j \in 1..Len(out[1]) :
        /\ out[1][i].type = "tensor"
        /\ out[1][j].type = "tensor"
        /\ out[1][i].device # out[1][j].device
        /\ out[1][i].shape = <<2, 3, 4>>
        /\ out[1][j].shape = <<2, 3, 4>>
        /\ out[1][i].dtype = "torch.float16"
        /\ out[1][j].dtype = "torch.float16"
        /\ out[1][i].size_bytes = 48

\* C5: every non-tensor, non-dict leaf within the depth bound has a
\* descriptor with a value preview: 'callable' if the value is invocable,
\* else its string representation cut to at most 100 characters.
C5_OtherPreview ==
    Returned =>
        \A c \in 1..Len(out) : \A ps \in LeafPaths(max_depth) :
            LET v == Walk(Root, ps) IN
            v.kind = "other" =>
                \E i \in 1..Len(out[c]) :
                    /\ out[c][i].key = PathKey(prefix0, WalkKeys(Root, ps))
                    /\ out[c][i].type = v.tname
                    /\ "value_preview" \in DOMAIN out[c][i]
                    /\ out[c][i].value_preview =
                          IF v.callable
                          THEN <<"c", "a", "l", "l", "a", "b", "l", "e">>
                          ELSE IF Len(v.repr) <= 100 THEN v.repr
                               ELSE SubSeq(v.repr, 1, 100)
                    /\ Len(out[c][i].value_preview) <= 100

\* a string of 101 characters previewed with 100, next to a callable whose
\* representation is long
C5_Witness ==
    /\ Returned
    /\ \E i, j \in 1..Len(out[1]) :
        /\ out[1][i].type = "str"
        /\ Len(out[1][i].value_preview) = 100
        /\ out[1][j].type = "Hook"
    /\ \E e \in Range(heap[Root]) :
        e.val.kind = "other" /\ Len(e.val.repr) = 101 /\ ~e.val.callable

\* position sequences in dictionary order
LexLess(q, ps) ==
    \E i \in 1..Len(q) :
        /\ i <= Len(ps)
        /\ q[i] < ps[i]
        /\ \A j \in 1..(i - 1) : q[j] = ps[j]

Rank(ps, d) == Cardinality({q \in LeafPaths(d) : LexLess(q, ps)}) + 1

\* C6: the result is the depth-first flattening in iteration order: the
\* descriptor of a leaf stands at the rank of its path among the leaf paths,
\* and dict nodes, empty ones included, add no descriptor.
C6_DepthFirstOrder ==
    Returned =>
        \A c \in 1..Len(out) :
            /\ Len(out[c]) = Cardinality(LeafPaths(max_depth))
            /\ \A ps \in LeafPaths(max_depth) :
                   out[c][Rank(ps, max_depth)] = LeafDescriptor(ps)

\* a nested dict with two leaves stands before a sibling leaf, and an empty
\* dict is among the values
C6_Witness ==
    /\ Returned
    /\ Len(out[1]) >= 3
    /\ Len(heap[Root]) = 2
    /\ IsDict(heap[Root][1].val)
    /\ ~IsDict(heap[Root][2].val)
    /\ \E i \in DictIds : heap[i] = <<>>

\* C7: every call on the unchanged input returns the same sequence.
C7_SameResultEachCall ==
    \A c, e \in 1..Len(out) : out[c] = out[e]

\* the second call has returned a non-empty result
C7_Witness ==
    /\ stack = <<>>
    /\ Len(out) >= 2
    /\ Len(out[2]) >= 2

C8_StepKeepsInput ==
    /\ heap' = heap
    /\ prefix0' = prefix0
    /\ max_depth' = max_depth
    /\ \/ out' = out
       \/ /\ Len(out') = Len(out) + 1
          /\ SubSeq(out', 1, Len(out)) = out

\* C8: no step changes the input mapping or the arguments, and what earlier
\* calls returned stays as it was: a step only extends the output.
C8_NoSideEffects == [][C8_StepKeepsInput]_vars

\* a call over tensors, other values and a nested dict has completed
C8_Witness ==
    /\ Done
    /\ \E i, j \in 1..Len(out[2]) :
          out[2][i].type = "tensor" /\ out[2][j].type # "tensor"
    /\ \E e \in Range(heap[Root]) : IsDict(e.val)

C9_DepthBounded ==
    /\ Len(stack) <= max_depth + 2
    /\ \A i \in 1..Len(stack) : stack[i].current_depth = i - 1

\* C9: the recursion never goes deeper than current_depth = max_depth + 1,
\* and every call returns, also on an input that contains itself.
C9_Terminates == []C9_DepthBounded /\ <>Done

\* the call at depth max_depth + 1 of a dict that contains itself
C9_Witness ==
    /\ stack # <<>>
    /\ Top.current_depth = max_depth + 1
    /\ Top.data = Root
    /\ \E e \in Range(heap[Root]) : e.val = DictRef(Root)

\* the keys under which the frames below frame i are iterating
ChainKeys(i) == [j \in 1..(i - 1) |-> heap[stack[j].data][stack[j].pos].key]

\* C10: the prefix of every call is the step-by-step join of the keys that
\* lead to its dict, and the returned keys are the step-by-step joins of the
\* keys that lead to the leaves; {"a": {"b": x}, ...} with an empty prefix
\* yields the key a.b.
C10_DottedPath ==
    /\ \A i \in 1..Len(stack) :
          stack[i].prefix = PathKey(prefix0, ChainKeys(i))
    /\ Returned =>
          \A c \in 1..Len(out) :
              {out[c][i].key : i \in 1..Len(out[c])} =
                  {PathKey(prefix0, WalkKeys(Root, ps)) :
                      ps \in LeafPaths(max_depth)}

\* {"a": {"b": tensor}, "c": 5} with an empty prefix returned a.b and c
C10_Witness ==
    /\ Returned
    /\ prefix0 = <<>>
    /\ Len(heap[Root]) = 2
    /\ Len(out[1]) = 2
    /\ heap[Root][1] = Entry(<<"a">>, DictRef(2))
    /\ heap[Root][2] = Entry(<<"c">>, Other("int", 28, <<"5">>, FALSE))
    /\ heap[2] = <<Entry(<<"b">>, Tensor(<<2, 2>>, "float32", "cpu"))>>
    /\ [i \in 1..Len(out[1]) |-> out[1][i].key] = <<<<"a", ".", "b">>, <<"c">>>>
    /\ out[1][1].size_bytes = 16

====
